---------------------------- MODULE Spec2Model ----------------------------
(***************************************************************************)
(* Model of seed-master-integrations.py: the catalog seeder that writes    *)
(* the AWS and M365 service definitions into the master-integrations       *)
(* DynamoDB table (seed_services), and the read-back report (verify_table).*)
(* The table outlives a process; everything else is local to one           *)
(* invocation of main.                                                     *)
(***************************************************************************)
EXTENDS Integers, Sequences, FiniteSets, TLC

(* ------------------------------ bounds -------------------------------- *)
\* number of invocations of the script in one behaviour
MaxRuns == 2
\* number of scan calls (pages) one verify_table pass may need
MaxPages == 3
\* number of items on a full page of a scan
PageUnit == 30

(* --------------------------- static tables ---------------------------- *)
ASSETS_ENABLED_SERVICES ==
  {"iam", "bedrock", "ec2", "lambda", "ecs", "eks",
   "entraid", "intune"}

\* the Data Discovery set with DocumentDB left in
DATA_DISCOVERY_WITH_DOCUMENTDB ==
  {"s3", "dynamodb", "documentdb", "ec2", "efs", "fsx", "neptune", "rds",
   "redshift", "sharepoint", "onedrive"}

DATA_DISCOVERY_ENABLED_SERVICES ==
  {"s3", "dynamodb", "ec2", "efs", "fsx", "neptune", "rds", "redshift",
   "sharepoint", "onedrive"}

AWS_SERVICES ==
  <<
    [service |-> "s3", displayName |-> "S3 (Simple Storage Service)", category |-> "storage",
     description |-> "Object storage for data storage and retrieval"],
    [service |-> "efs", displayName |-> "EFS (Elastic File System)", category |-> "storage",
     description |-> "Fully managed elastic NFS file system"],
    [service |-> "fsx", displayName |-> "FSx", category |-> "storage",
     description |-> "Fully managed file systems (Windows, Lustre, ONTAP, OpenZFS)"],
    [service |-> "glacier", displayName |-> "S3 Glacier", category |-> "storage",
     description |-> "Low-cost archive storage"],
    [service |-> "backup", displayName |-> "AWS Backup", category |-> "storage",
     description |-> "Centralized backup service"],
    [service |-> "storagegateway", displayName |-> "Storage Gateway", category |-> "storage",
     description |-> "Hybrid cloud storage integration"],
    [service |-> "transfer", displayName |-> "Transfer Family", category |-> "storage",
     description |-> "SFTP, FTPS, and FTP transfers to S3"],
    [service |-> "dlm", displayName |-> "Data Lifecycle Manager", category |-> "storage",
     description |-> "Automated EBS snapshot and AMI management"],
    [service |-> "ecr", displayName |-> "ECR (Container Registry)", category |-> "storage",
     description |-> "Docker container image registry"],
    [service |-> "dynamodb", displayName |-> "DynamoDB", category |-> "database",
     description |-> "Fully managed NoSQL database"],
    [service |-> "rds", displayName |-> "RDS (Relational Database Service)", category |-> "database",
     description |-> "Managed relational databases"],
    [service |-> "documentdb", displayName |-> "DocumentDB", category |-> "database",
     description |-> "MongoDB-compatible document database"],
    [service |-> "neptune", displayName |-> "Neptune", category |-> "database",
     description |-> "Fully managed graph database"],
    [service |-> "redshift", displayName |-> "Redshift", category |-> "database",
     description |-> "Data warehouse service"],
    [service |-> "elasticache", displayName |-> "ElastiCache", category |-> "database",
     description |-> "In-memory caching (Redis, Memcached)"],
    [service |-> "memorydb", displayName |-> "MemoryDB", category |-> "database",
     description |-> "Redis-compatible in-memory database"],
    [service |-> "dax", displayName |-> "DAX (DynamoDB Accelerator)", category |-> "database",
     description |-> "In-memory cache for DynamoDB"],
    [service |-> "dms", displayName |-> "DMS (Database Migration Service)", category |-> "database",
     description |-> "Database migration and replication"],
    [service |-> "ec2", displayName |-> "EC2 (Elastic Compute Cloud)", category |-> "compute",
     description |-> "Virtual servers in the cloud"],
    [service |-> "lambda", displayName |-> "Lambda", category |-> "compute",
     description |-> "Serverless compute service"],
    [service |-> "ecs", displayName |-> "ECS (Elastic Container Service)", category |-> "compute",
     description |-> "Docker container orchestration"],
    [service |-> "eks", displayName |-> "EKS (Elastic Kubernetes Service)", category |-> "compute",
     description |-> "Managed Kubernetes service"],
    [service |-> "elasticbeanstalk", displayName |-> "Elastic Beanstalk", category |-> "compute",
     description |-> "Application deployment platform"],
    [service |-> "apprunner", displayName |-> "App Runner", category |-> "compute",
     description |-> "Containerized web app deployment"],
    [service |-> "autoscaling", displayName |-> "Auto Scaling", category |-> "compute",
     description |-> "Automatic scaling for EC2"],
    [service |-> "emr", displayName |-> "EMR (Elastic MapReduce)", category |-> "compute",
     description |-> "Big data processing framework"],
    [service |-> "appstream", displayName |-> "AppStream 2.0", category |-> "compute",
     description |-> "Application streaming service"],
    [service |-> "workspaces", displayName |-> "WorkSpaces", category |-> "compute",
     description |-> "Virtual desktops in the cloud"],
    [service |-> "iam", displayName |-> "IAM (Identity and Access Management)", category |-> "security",
     description |-> "Access control and identity management"],
    [service |-> "guardduty", displayName |-> "GuardDuty", category |-> "security",
     description |-> "Intelligent threat detection"],
    [service |-> "securityhub", displayName |-> "Security Hub", category |-> "security",
     description |-> "Security and compliance center"],
    [service |-> "macie", displayName |-> "Macie", category |-> "security",
     description |-> "Sensitive data discovery"],
    [service |-> "inspector", displayName |-> "Inspector", category |-> "security",
     description |-> "Automated security assessment"],
    [service |-> "waf", displayName |-> "WAF (Web Application Firewall)", category |-> "security",
     description |-> "Web application firewall"],
    [service |-> "shield", displayName |-> "Shield", category |-> "security",
     description |-> "DDoS protection"],
    [service |-> "config", displayName |-> "AWS Config", category |-> "security",
     description |-> "Resource configuration tracking"],
    [service |-> "kms", displayName |-> "KMS (Key Management Service)", category |-> "security",
     description |-> "Encryption key management"],
    [service |-> "secretsmanager", displayName |-> "Secrets Manager", category |-> "security",
     description |-> "Secrets rotation and management"],
    [service |-> "accessanalyzer", displayName |-> "IAM Access Analyzer", category |-> "security",
     description |-> "Resource access analysis"],
    [service |-> "acm", displayName |-> "ACM (Certificate Manager)", category |-> "security",
     description |-> "SSL/TLS certificate management"],
    [service |-> "cognito", displayName |-> "Cognito", category |-> "security",
     description |-> "User authentication and authorization"],
    [service |-> "fms", displayName |-> "Firewall Manager", category |-> "security",
     description |-> "Central firewall rule management"],
    [service |-> "networkfirewall", displayName |-> "Network Firewall", category |-> "security",
     description |-> "Managed network firewall"],
    [service |-> "vpc", displayName |-> "VPC (Virtual Private Cloud)", category |-> "networking",
     description |-> "Isolated cloud network"],
    [service |-> "elb", displayName |-> "ELB Classic", category |-> "networking",
     description |-> "Classic load balancer"],
    [service |-> "elbv2", displayName |-> "ELB v2 (ALB/NLB)", category |-> "networking",
     description |-> "Application and network load balancers"],
    [service |-> "route53", displayName |-> "Route 53", category |-> "networking",
     description |-> "DNS and domain management"],
    [service |-> "cloudfront", displayName |-> "CloudFront", category |-> "networking",
     description |-> "Content delivery network (CDN)"],
    [service |-> "directconnect", displayName |-> "Direct Connect", category |-> "networking",
     description |-> "Dedicated network connection"],
    [service |-> "globalaccelerator", displayName |-> "Global Accelerator", category |-> "networking",
     description |-> "Global network performance optimization"],
    [service |-> "apigatewayv2", displayName |-> "API Gateway v2", category |-> "networking",
     description |-> "HTTP and WebSocket APIs"],
    [service |-> "apigateway", displayName |-> "API Gateway", category |-> "networking",
     description |-> "REST API management"],
    [service |-> "bedrock", displayName |-> "Bedrock", category |-> "ai_ml",
     description |-> "Foundation models for generative AI"],
    [service |-> "sagemaker", displayName |-> "SageMaker", category |-> "ai_ml",
     description |-> "Machine learning platform"],
    [service |-> "amazon_q", displayName |-> "Amazon Q", category |-> "ai_ml",
     description |-> "AI-powered assistant"],
    [service |-> "athena", displayName |-> "Athena", category |-> "analytics",
     description |-> "Interactive query service for S3"],
    [service |-> "glue", displayName |-> "Glue", category |-> "analytics",
     description |-> "ETL and data catalog service"],
    [service |-> "kinesis", displayName |-> "Kinesis Data Streams", category |-> "analytics",
     description |-> "Real-time data streaming"],
    [service |-> "firehose", displayName |-> "Kinesis Firehose", category |-> "analytics",
     description |-> "Data delivery to destinations"],
    [service |-> "opensearch", displayName |-> "OpenSearch", category |-> "analytics",
     description |-> "Search and analytics engine"],
    [service |-> "lakeformation", displayName |-> "Lake Formation", category |-> "analytics",
     description |-> "Data lake management"],
    [service |-> "msk", displayName |-> "MSK (Managed Streaming for Kafka)", category |-> "analytics",
     description |-> "Managed Apache Kafka"],
    [service |-> "sns", displayName |-> "SNS (Simple Notification Service)", category |-> "integration",
     description |-> "Pub/sub messaging"],
    [service |-> "sqs", displayName |-> "SQS (Simple Queue Service)", category |-> "integration",
     description |-> "Message queuing"],
    [service |-> "ses", displayName |-> "SES (Simple Email Service)", category |-> "integration",
     description |-> "Email sending and receiving"],
    [service |-> "eventbridge", displayName |-> "EventBridge", category |-> "integration",
     description |-> "Serverless event bus"],
    [service |-> "stepfunctions", displayName |-> "Step Functions", category |-> "integration",
     description |-> "Workflow orchestration"],
    [service |-> "mq", displayName |-> "Amazon MQ", category |-> "integration",
     description |-> "Managed message broker"],
    [service |-> "appsync", displayName |-> "AppSync", category |-> "integration",
     description |-> "Managed GraphQL service"],
    [service |-> "amplify", displayName |-> "Amplify", category |-> "integration",
     description |-> "Full-stack app development"],
    [service |-> "iot", displayName |-> "IoT Core", category |-> "integration",
     description |-> "IoT device connectivity"],
    [service |-> "cloudtrail", displayName |-> "CloudTrail", category |-> "management",
     description |-> "AWS API logging and auditing"],
    [service |-> "cloudwatch", displayName |-> "CloudWatch", category |-> "management",
     description |-> "Monitoring and observability"],
    [service |-> "cloudformation", displayName |-> "CloudFormation", category |-> "management",
     description |-> "Infrastructure as code"],
    [service |-> "ssm", displayName |-> "Systems Manager", category |-> "management",
     description |-> "Operations management"],
    [service |-> "organizations", displayName |-> "Organizations", category |-> "management",
     description |-> "Multi-account management"],
    [service |-> "ram", displayName |-> "RAM (Resource Access Manager)", category |-> "management",
     description |-> "Cross-account resource sharing"],
    [service |-> "servicecatalog", displayName |-> "Service Catalog", category |-> "management",
     description |-> "IT service catalog"],
    [service |-> "directoryservice", displayName |-> "Directory Service", category |-> "management",
     description |-> "Managed Active Directory"],
    [service |-> "drs", displayName |-> "DRS (Disaster Recovery Service)", category |-> "management",
     description |-> "Disaster recovery"],
    [service |-> "codebuild", displayName |-> "CodeBuild", category |-> "management",
     description |-> "Build service"],
    [service |-> "codepipeline", displayName |-> "CodePipeline", category |-> "management",
     description |-> "CI/CD pipelines"],
    [service |-> "codedeploy", displayName |-> "CodeDeploy", category |-> "management",
     description |-> "Deployment automation"]
  >>

M365_SERVICES ==
  <<
    [service |-> "entraid", displayName |-> "Entra ID (Azure AD)", category |-> "identity",
     description |-> "Users, groups, and identity management"],
    [service |-> "intune", displayName |-> "Intune", category |-> "management",
     description |-> "Device management and compliance"],
    [service |-> "sharepoint", displayName |-> "SharePoint Online", category |-> "collaboration",
     description |-> "Document management and collaboration"],
    [service |-> "onedrive", displayName |-> "OneDrive for Business", category |-> "storage",
     description |-> "Personal cloud storage"]
  >>

\* the values --environment accepts (choices=...)
Environments == {"dev", "staging", "prod"}

Providers == {"aws", "m365"}

get_table_name(environment) == "master-integrations"

\* dict.get(key, default)
Get(d, key, default) == IF key \in DOMAIN d THEN d[key] ELSE default

\* d[key] = d.get(key, 0) + 1
Incr(d, key) ==
  [x \in DOMAIN d \cup {key} |-> IF x = key THEN Get(d, key, 0) + 1 ELSE d[x]]

EmptyDict == [x \in {} |-> 0]

Bool2Str(b) == IF b THEN "true" ELSE "false"

\* build_service_item with both feature flags read from the other set
build_service_item_swapped(service_config, provider, now) ==
  LET service_name == service_config.service
      assets_enabled == service_name \in DATA_DISCOVERY_ENABLED_SERVICES
      data_discovery_enabled == service_name \in ASSETS_ENABLED_SERVICES
  IN  [pk |-> provider \o "#" \o service_name,
       provider |-> provider,
       service |-> service_name,
       displayName |-> service_config.displayName,
       description |-> Get(service_config, "description", ""),
       category |-> service_config.category,
       cspmEnabled |-> "true",
       assetsEnabled |-> Bool2Str(assets_enabled),
       dataDiscoveryEnabled |-> Bool2Str(data_discovery_enabled),
       features |->
         [cspm |-> [enabled |-> TRUE,
                    description |-> "Cloud Security Posture Management checks"],
          assets |-> [enabled |-> assets_enabled,
                      description |-> "Asset inventory tracking"],
          dataDiscovery |-> [enabled |-> data_discovery_enabled,
                             description |-> "Data discovery and classification"]],
       collectorName |-> service_name,
       createdAt |-> now,
       updatedAt |-> now,
       updatedBy |-> "system"]

\* build_service_item with CSPM switched on only where Assets is
build_service_item_cspm_by_set(service_config, provider, now) ==
  LET service_name == service_config.service
      cspm_enabled == service_name \in ASSETS_ENABLED_SERVICES
      assets_enabled == service_name \in ASSETS_ENABLED_SERVICES
      data_discovery_enabled == service_name \in DATA_DISCOVERY_ENABLED_SERVICES
  IN  [pk |-> provider \o "#" \o service_name,
       provider |-> provider,
       service |-> service_name,
       displayName |-> service_config.displayName,
       description |-> Get(service_config, "description", ""),
       category |-> service_config.category,
       cspmEnabled |-> Bool2Str(cspm_enabled),
       assetsEnabled |-> Bool2Str(assets_enabled),
       dataDiscoveryEnabled |-> Bool2Str(data_discovery_enabled),
       features |->
         [cspm |-> [enabled |-> cspm_enabled,
                    description |-> "Cloud Security Posture Management checks"],
          assets |-> [enabled |-> assets_enabled,
                      description |-> "Asset inventory tracking"],
          dataDiscovery |-> [enabled |-> data_discovery_enabled,
                             description |-> "Data discovery and classification"]],
       collectorName |-> service_name,
       createdAt |-> now,
       updatedAt |-> now,
       updatedBy |-> "system"]

\* build_service_item with the key made of provider and category
build_service_item_category_key(service_config, provider, now) ==
  LET service_name == service_config.service
      assets_enabled == service_name \in ASSETS_ENABLED_SERVICES
      data_discovery_enabled == service_name \in DATA_DISCOVERY_ENABLED_SERVICES
  IN  [pk |-> provider \o "#" \o service_config.category,
       provider |-> provider,
       service |-> service_name,
       displayName |-> service_config.displayName,
       description |-> Get(service_config, "description", ""),
       category |-> service_config.category,
       cspmEnabled |-> "true",
       assetsEnabled |-> Bool2Str(assets_enabled),
       dataDiscoveryEnabled |-> Bool2Str(data_discovery_enabled),
       features |->
         [cspm |-> [enabled |-> TRUE,
                    description |-> "Cloud Security Posture Management checks"],
          assets |-> [enabled |-> assets_enabled,
                      description |-> "Asset inventory tracking"],
          dataDiscovery |-> [enabled |-> data_discovery_enabled,
                             description |-> "Data discovery and classification"]],
       collectorName |-> service_name,
       createdAt |-> now,
       updatedAt |-> now,
       updatedBy |-> "system"]

build_service_item(service_config, provider, now) ==
  LET service_name == service_config.service
      cspm_enabled == TRUE
      assets_enabled == service_name \in ASSETS_ENABLED_SERVICES
      data_discovery_enabled == service_name \in DATA_DISCOVERY_ENABLED_SERVICES
  IN  [pk |-> provider \o "#" \o service_name,
       provider |-> provider,
       service |-> service_name,
       displayName |-> service_config.displayName,
       description |-> Get(service_config, "description", ""),
       category |-> service_config.category,
       cspmEnabled |-> Bool2Str(cspm_enabled),
       assetsEnabled |-> Bool2Str(assets_enabled),
       dataDiscoveryEnabled |-> Bool2Str(data_discovery_enabled),
       features |->
         [cspm |-> [enabled |-> cspm_enabled,
                    description |-> "Cloud Security Posture Management checks"],
          assets |-> [enabled |-> assets_enabled,
                      description |-> "Asset inventory tracking"],
          dataDiscovery |-> [enabled |-> data_discovery_enabled,
                             description |-> "Data discovery and classification"]],
       collectorName |-> service_name,
       createdAt |-> now,
       updatedAt |-> now,
       updatedBy |-> "system"]

\* all_services: the AWS entries tagged "aws", then the M365 entries tagged "m365"
all_services ==
  [i \in 1..Len(AWS_SERVICES) |-> <<AWS_SERVICES[i], "aws">>]
    \o [i \in 1..Len(M365_SERVICES) |-> <<M365_SERVICES[i], "m365">>]

(* ------------------------------- state -------------------------------- *)
VARIABLES
  table,              \* the master-integrations table: its items, in scan order
  clock,              \* datetime.now(timezone.utc), as a tick counter
  runs,               \* invocations of the script so far
  pc,                 \* where the running process is ("shell": none running)
  exitCode,           \* exit status of the last process (NoExit while running)
  verify,             \* args.verify
  dry_run,            \* args.dry_run
  table_name,         \* table_name local of seed_services / verify_table
  handle,             \* TRUE once dynamodb.Table(table_name) was created
  stats,              \* seed_services: processed / written / errors
  items_by_category,  \* seed_services: dict category -> count
  items_by_provider,  \* seed_services: dict provider -> count
  idx,                \* seed_services: position of the for loop in all_services
  item,               \* the record build_service_item returned last
  puts,               \* pk of every put_item call issued by this process
  log,                \* logger output of this process
  out,                \* print output of this process
  response,           \* verify_table: the last scan response
  items,              \* verify_table: the items read so far
  scans,              \* scan calls issued by this process
  scan_raised,        \* a scan call of this process raised
  emptyStart,         \* the table was empty when this process started
  lastSeed,           \* what the last real seed_services call returned and printed
  build_args          \* arguments of a direct build_service_item call

vars ==
  <<table, clock, runs, pc, exitCode, verify, dry_run, table_name,
    handle, stats, items_by_category, items_by_provider, idx, item, puts,
    log, out, response, items, scans,
    scan_raised, emptyStart, lastSeed, build_args>>

NoExit == 0 - 1
NoItem == [x \in {} |-> 0]
NoResponse == [x \in {} |-> 0]
NoSeed == [x \in {} |-> 0]
NoArgs == [x \in {} |-> 0]
ZeroStats == [processed |-> 0, written |-> 0, errors |-> 0]

N == Len(all_services)

(* --------------------- the table (DynamoDB boundary) ------------------ *)
Keys(tbl) == {tbl[i].pk : i \in 1..Len(tbl)}

\* position of the item stored under key, 0 when there is none
IndexOf(tbl, key) ==
  IF key \in Keys(tbl) THEN CHOOSE i \in 1..Len(tbl) : tbl[i].pk = key ELSE 0

\* a write that keeps the createdAt of the item it finds under the key
put_item_keep_created(tbl, it) ==
  IF it.pk \in Keys(tbl)
    THEN [tbl EXCEPT ![IndexOf(tbl, it.pk)] =
            [it EXCEPT !.createdAt = tbl[IndexOf(tbl, it.pk)].createdAt]]
    ELSE Append(tbl, it)

\* table.put_item(Item=it): the item replaces whatever is stored under its pk
put_item(tbl, it) ==
  IF it.pk \in Keys(tbl)
    THEN [tbl EXCEPT ![IndexOf(tbl, it.pk)] = it]
    ELSE Append(tbl, it)

\* the responses table.scan(...) may give when resuming after position start
\* with pagesLeft calls still allowed: a page of the next items (one item,
\* PageUnit items, or all that remain), with LastEvaluatedKey whenever items
\* remain after it
ScanResponses(tbl, start, pagesLeft) ==
  LET n == Len(tbl)
      page(k) == SubSeq(tbl, start + 1, start + k)
      final == {[Items |-> page(n - start)]}
      more == {[Items |-> page(k), LastEvaluatedKey |-> tbl[start + k].pk] :
                 k \in {j \in {1, PageUnit} : start + j < n}}
  IN  IF pagesLeft <= 1 THEN final ELSE final \cup more

(* ------------------------------ main ---------------------------------- *)
Init ==
  /\ table = <<>>
  /\ clock = 0
  /\ runs = 0
  /\ pc = "shell"
  /\ exitCode = NoExit
  /\ verify = FALSE
  /\ dry_run = FALSE
  /\ table_name = ""
  /\ handle = FALSE
  /\ stats = ZeroStats
  /\ items_by_category = EmptyDict
  /\ items_by_provider = EmptyDict
  /\ idx = 1
  /\ item = NoItem
  /\ puts = <<>>
  /\ log = <<>>
  /\ out = <<>>
  /\ response = NoResponse
  /\ items = <<>>
  /\ scans = 0
  /\ scan_raised = FALSE
  /\ emptyStart = TRUE
  /\ lastSeed = NoSeed
  /\ build_args = NoArgs

\* a fresh process: nothing of the previous one survives but the table
FreshProcess ==
  /\ handle' = FALSE
  /\ stats' = ZeroStats
  /\ items_by_category' = EmptyDict
  /\ items_by_provider' = EmptyDict
  /\ idx' = 1
  /\ item' = NoItem
  /\ puts' = <<>>
  /\ log' = <<>>
  /\ out' = <<>>
  /\ response' = NoResponse
  /\ items' = <<>>
  /\ scans' = 0
  /\ scan_raised' = FALSE
  /\ emptyStart' = (table = <<>>)

\* a main in which --dry-run wins over --verify
RunsVerifyUnlessDry(v, d) == v /\ ~d

\* main calls verify_table when --verify is given, seed_services otherwise
RunsVerify(v, d) == v

\* main: the arguments parse, and verify_table or seed_services is entered
Main ==
  /\ pc = "shell"
  /\ runs < MaxRuns
  /\ \E environment \in Environments, v \in BOOLEAN, d \in BOOLEAN :
       /\ runs' = runs + 1
       /\ FreshProcess
       /\ verify' = v
       /\ dry_run' = d
       /\ table_name' = get_table_name(environment)
       /\ exitCode' = NoExit
       /\ pc' = IF RunsVerify(v, d) THEN "verify_table" ELSE "seed_services"
  /\ UNCHANGED <<table, clock, lastSeed, build_args>>

(* --------------------------- seed_services ---------------------------- *)
\* a seed_services that creates the table handle in every mode
AlwaysTable(d) == TRUE

\* "if not dry_run": only a real run creates the resource and the table handle
NeedsTable(d) == ~d

\* the features a dry run lists for an item
DryRunFeatures(it) ==
  (IF it.cspmEnabled = "true" THEN <<"CSPM">> ELSE <<>>)
    \o (IF it.assetsEnabled = "true" THEN <<"Assets">> ELSE <<>>)
    \o (IF it.dataDiscoveryEnabled = "true" THEN <<"DataDiscovery">> ELSE <<>>)

\* stats["written"] += 1
CountWritten(s) == [s EXCEPT !.written = @ + 1]

\* except Exception: stats["errors"] += 1
CountError(s) == [s EXCEPT !.errors = @ + 1]

\* the entries of all_services whose put_item call may raise: the first, the
\* second, the first M365 entry and the last
FaultSites == {1, 2, Len(AWS_SERVICES) + 1, N}

\* a for loop that a failed write ends
AfterWriteAbort(i, ok) == IF i = N \/ ~ok THEN "seed_summary" ELSE "seed_loop"

\* the for loop goes on to the next entry whether or not the write failed
AfterWrite(i, ok) == IF i = N THEN "seed_summary" ELSE "seed_loop"

\* boto3.resource('dynamodb') raises (no region, no credentials chain): nothing
\* catches it, the exception leaves main and the interpreter exits with 1
SeedClientError ==
  /\ pc = "seed_services"
  /\ NeedsTable(dry_run)
  /\ exitCode' = 1
  /\ pc' = "shell"
  /\ UNCHANGED <<table, clock, runs, verify, dry_run, table_name,
                 handle, stats, items_by_category, items_by_provider, idx,
                 item, puts, log, out, response, items, scans, scan_raised, emptyStart,
                 lastSeed, build_args>>

\* seed_services up to the for loop
SeedBegin ==
  /\ pc = "seed_services"
  /\ log' = Append(log, <<"seeding", dry_run, table_name>>)
  /\ handle' = NeedsTable(dry_run)
  /\ stats' = ZeroStats
  /\ items_by_category' = EmptyDict
  /\ items_by_provider' = EmptyDict
  /\ idx' = 1
  /\ pc' = "seed_loop"
  /\ UNCHANGED <<table, clock, runs, exitCode, verify, dry_run,
                 table_name, item, puts, out, response, items, scans, scan_raised,
                 emptyStart, lastSeed, build_args>>

\* what one iteration does before it writes: count, build, group
SeedCount(it, service_config, provider) ==
  /\ item' = it
  /\ clock' = clock + 1
  /\ items_by_category' = Incr(items_by_category, service_config.category)
  /\ items_by_provider' = Incr(items_by_provider, provider)
  /\ idx' = idx + 1

\* one iteration of the for loop in a dry run
SeedDryStep ==
  /\ pc = "seed_loop"
  /\ dry_run
  /\ LET service_config == all_services[idx][1]
         provider == all_services[idx][2]
         it == build_service_item(service_config, provider, clock)
     IN  /\ SeedCount(it, service_config, provider)
         /\ log' = Append(log, <<"dry_run", it.pk, DryRunFeatures(it)>>)
         /\ stats' = CountWritten([stats EXCEPT !.processed = @ + 1])
         /\ pc' = AfterWrite(idx, TRUE)
  /\ UNCHANGED <<table, runs, exitCode, verify, dry_run, table_name,
                 handle, puts, out, response, items, scans, scan_raised, emptyStart,
                 lastSeed, build_args>>

\* one iteration of the for loop in a real run: put_item succeeds or raises
SeedWriteStep ==
  /\ pc = "seed_loop"
  /\ ~dry_run
  /\ handle
  /\ LET service_config == all_services[idx][1]
         provider == all_services[idx][2]
         it == build_service_item(service_config, provider, clock)
     IN  /\ SeedCount(it, service_config, provider)
         /\ puts' = Append(puts, it.pk)
         /\ \E ok \in BOOLEAN :
              /\ ok \/ idx \in FaultSites
              /\ IF ok
                   THEN /\ table' = put_item(table, it)
                        /\ log' = Append(log, <<"written", it.pk>>)
                        /\ stats' = CountWritten([stats EXCEPT !.processed = @ + 1])
                   ELSE /\ table' = table
                        /\ log' = Append(log, <<"error", it.pk>>)
                        /\ stats' = CountError([stats EXCEPT !.processed = @ + 1])
              /\ pc' = AfterWrite(idx, ok)
  /\ UNCHANGED <<runs, exitCode, verify, dry_run, table_name, handle, out,
                 response, items, scans, scan_raised, emptyStart, lastSeed, build_args>>

\* the summary seed_services prints, and its return to main
SeedSummary ==
  /\ pc = "seed_summary"
  /\ out' = out \o
       << <<"summary", stats>>,
          <<"by_provider", items_by_provider>>,
          <<"by_category", items_by_category>>,
          <<"coverage", stats.processed,
            Cardinality(ASSETS_ENABLED_SERVICES),
            Cardinality(DATA_DISCOVERY_ENABLED_SERVICES)>> >>
  /\ lastSeed' =
       IF dry_run THEN lastSeed
       ELSE [stats |-> stats, by_provider |-> items_by_provider,
             by_category |-> items_by_category, emptyStart |-> emptyStart]
  /\ pc' = "seed_returned"
  /\ UNCHANGED <<table, clock, runs, exitCode, verify, dry_run,
                 table_name, handle, stats, items_by_category,
                 items_by_provider, idx, item, puts, log, response, items,
                 scans, scan_raised, emptyStart, build_args>>

\* "if not args.dry_run and stats['errors'] == 0"
ShowHint(d, s) == ~d /\ s.errors = 0

\* a main that reports counted errors in its exit status
ExitStatusByErrors(s) == IF s.errors > 0 THEN 1 ELSE 0

\* main returns normally whatever the counts say: the exit status is 0
ExitStatus(s) == 0

\* main after seed_services returned: the hint, then a normal exit
MainAfterSeed ==
  /\ pc = "seed_returned"
  /\ out' = IF ShowHint(dry_run, stats) THEN Append(out, <<"hint">>) ELSE out
  /\ exitCode' = ExitStatus(stats)
  /\ pc' = "shell"
  /\ UNCHANGED <<table, clock, runs, verify, dry_run, table_name,
                 handle, stats, items_by_category, items_by_provider, idx,
                 item, puts, log, response, items, scans, scan_raised, emptyStart,
                 lastSeed, build_args>>

(* ---------------------------- verify_table ---------------------------- *)
\* a pagination loop that keeps only the last page
ReplaceItems(its, resp) == Get(resp, "Items", <<>>)

\* a scan error that is swallowed, the pass going on with what it has
OnScanErrorResume == "verify_paginate"

\* items.extend(response.get('Items', []))
ExtendItems(its, resp) == its \o Get(resp, "Items", <<>>)

\* where a raising scan call leaves the try block
OnScanError == "verify_except"

\* the counting loop over the items read: d[v] is the number of items whose
\* field is v, "unknown" standing for a missing field
CountBy(its, field) ==
  LET val(i) == Get(its[i], field, "unknown")
  IN  [v \in {val(i) : i \in 1..Len(its)} |->
         Cardinality({i \in 1..Len(its) : val(i) = v})]

\* number of items whose flag attribute is the string "true"
CountFlag(its, flag) ==
  Cardinality({i \in 1..Len(its) : Get(its[i], flag, "") = "true"})

\* the "- [provider] service: displayName" lines for one flag
\* (printed sorted by pk; kept here in the order read)
FlagLines(its, flag) ==
  LET sel == SelectSeq(its, LAMBDA it : Get(it, flag, "") = "true")
  IN  [i \in 1..Len(sel) |->
         <<Get(sel[i], "provider", ""), Get(sel[i], "service", ""),
           Get(sel[i], "displayName", "")>>]

\* boto3.resource('dynamodb') raises before the try block is entered
VerifyClientError ==
  /\ pc = "verify_table"
  /\ exitCode' = 1
  /\ pc' = "shell"
  /\ UNCHANGED <<table, clock, runs, verify, dry_run, table_name,
                 handle, stats, items_by_category, items_by_provider, idx,
                 item, puts, log, out, response, items, scans, scan_raised, emptyStart,
                 lastSeed, build_args>>

\* verify_table up to the try block
VerifyBegin ==
  /\ pc = "verify_table"
  /\ handle' = TRUE
  /\ out' = Append(out, <<"verifying", table_name>>)
  /\ pc' = "verify_scan"
  /\ UNCHANGED <<table, clock, runs, exitCode, verify, dry_run,
                 table_name, stats, items_by_category, items_by_provider, idx,
                 item, puts, log, response, items, scans, scan_raised, emptyStart,
                 lastSeed, build_args>>

\* response = table.scan(); items = response.get('Items', [])
VerifyScanFirst ==
  /\ pc = "verify_scan"
  /\ scans' = scans + 1
  /\ \/ \E resp \in ScanResponses(table, 0, MaxPages - scans) :
          /\ response' = resp
          /\ items' = Get(resp, "Items", <<>>)
          /\ pc' = "verify_paginate"
          /\ UNCHANGED scan_raised
     \/ /\ scan_raised' = TRUE
        /\ pc' = OnScanError
        /\ UNCHANGED <<response, items>>
  /\ UNCHANGED <<table, clock, runs, exitCode, verify, dry_run,
                 table_name, handle, stats, items_by_category,
                 items_by_provider, idx, item, puts, log, out, emptyStart,
                 lastSeed, build_args>>

\* one turn of "while 'LastEvaluatedKey' in response"
VerifyScanNext ==
  /\ pc = "verify_paginate"
  /\ "LastEvaluatedKey" \in DOMAIN response
  /\ scans' = scans + 1
  /\ \/ \E resp \in ScanResponses(table,
                                  IndexOf(table, response.LastEvaluatedKey),
                                  MaxPages - scans) :
          /\ response' = resp
          /\ items' = ExtendItems(items, resp)
          /\ pc' = "verify_paginate"
          /\ UNCHANGED scan_raised
     \/ /\ scan_raised' = TRUE
        /\ pc' = OnScanError
        /\ UNCHANGED <<response, items>>
  /\ UNCHANGED <<table, clock, runs, exitCode, verify, dry_run,
                 table_name, handle, stats, items_by_category,
                 items_by_provider, idx, item, puts, log, out, emptyStart,
                 lastSeed, build_args>>

\* the report printed once the last page is in
VerifyReport ==
  /\ pc = "verify_paginate"
  /\ "LastEvaluatedKey" \notin DOMAIN response
  /\ out' = out \o
       << <<"total", Len(items)>>,
          <<"by_provider", CountBy(items, "provider")>>,
          <<"by_category", CountBy(items, "category")>>,
          <<"coverage", CountFlag(items, "cspmEnabled"),
            CountFlag(items, "assetsEnabled"),
            CountFlag(items, "dataDiscoveryEnabled")>>,
          <<"assets_list", FlagLines(items, "assetsEnabled")>>,
          <<"data_discovery_list", FlagLines(items, "dataDiscoveryEnabled")>> >>
  /\ pc' = "verify_end"
  /\ UNCHANGED <<table, clock, runs, exitCode, verify, dry_run,
                 table_name, handle, stats, items_by_category,
                 items_by_provider, idx, item, puts, log, response, items,
                 scans, scan_raised, emptyStart, lastSeed, build_args>>

\* except Exception as e: print(f"Error verifying table: {e}")
VerifyExcept ==
  /\ pc = "verify_except"
  /\ out' = Append(out, <<"error">>)
  /\ pc' = "verify_end"
  /\ UNCHANGED <<table, clock, runs, exitCode, verify, dry_run,
                 table_name, handle, stats, items_by_category,
                 items_by_provider, idx, item, puts, log, response, items,
                 scans, scan_raised, emptyStart, lastSeed, build_args>>

\* the closing rule, the return to main and the normal exit
VerifyEnd ==
  /\ pc = "verify_end"
  /\ out' = Append(out, <<"rule">>)
  /\ exitCode' = ExitStatus(stats)
  /\ pc' = "shell"
  /\ UNCHANGED <<table, clock, runs, verify, dry_run, table_name,
                 handle, stats, items_by_category, items_by_provider, idx,
                 item, puts, log, response, items, scans, scan_raised, emptyStart,
                 lastSeed, build_args>>

Next ==
  \/ Main
  \/ SeedClientError
  \/ SeedBegin
  \/ SeedDryStep
  \/ SeedWriteStep
  \/ SeedSummary
  \/ MainAfterSeed
  \/ VerifyClientError
  \/ VerifyBegin
  \/ VerifyScanFirst
  \/ VerifyScanNext
  \/ VerifyReport
  \/ VerifyExcept
  \/ VerifyEnd

Spec == Init /\ [][Next]_vars

(* ---------------- build_service_item called on its own ---------------- *)
\* timestamps a direct call may see
MaxNow == 1

Definitions ==
  {AWS_SERVICES[i] : i \in 1..Len(AWS_SERVICES)}
    \cup {M365_SERVICES[i] : i \in 1..Len(M365_SERVICES)}

InitBuild ==
  /\ table = <<>>
  /\ clock \in 0..MaxNow
  /\ runs = 0
  /\ pc = "build_call"
  /\ exitCode = NoExit
  /\ verify = FALSE
  /\ dry_run = FALSE
  /\ table_name = ""
  /\ handle = FALSE
  /\ stats = ZeroStats
  /\ items_by_category = EmptyDict
  /\ items_by_provider = EmptyDict
  /\ idx = 1
  /\ item = NoItem
  /\ puts = <<>>
  /\ log = <<>>
  /\ out = <<>>
  /\ response = NoResponse
  /\ items = <<>>
  /\ scans = 0
  /\ scan_raised = FALSE
  /\ emptyStart = TRUE
  /\ lastSeed = NoSeed
  /\ build_args \in [service_config : Definitions, provider : Providers]

BuildCall ==
  /\ pc = "build_call"
  /\ item' = build_service_item(build_args.service_config, build_args.provider,
                                clock)
  /\ pc' = "build_return"
  /\ UNCHANGED <<table, clock, runs, exitCode, verify, dry_run,
                 table_name, handle, stats, items_by_category,
                 items_by_provider, idx, puts, log, out, response, items,
                 scans, scan_raised, emptyStart, lastSeed, build_args>>

NextBuild == BuildCall

SpecBuild == InitBuild /\ [][NextBuild]_vars

\* both entry points: the script run from the shell, and the function called
\* on its own
InitAll == Init \/ InitBuild

NextAll == Next \/ NextBuild

SpecAll == InitAll /\ [][NextAll]_vars

(* ------------------------------ properties ---------------------------- *)
SeedPcs == {"seed_loop", "seed_summary", "seed_returned"}

VerifyPcs == {"verify_scan", "verify_paginate", "verify_except", "verify_end"}

\* the process has ended with a normal exit
Exited0 == pc = "shell" /\ exitCode = 0

\* a real seed_services call is in its loop or past it
InRealSeed == ~verify /\ ~dry_run /\ (pc \in SeedPcs \/ Exited0)

\* a real seed_services call has returned
RealSeedReturned == ~verify /\ ~dry_run /\ (pc = "seed_returned" \/ Exited0)

\* a dry-run seed_services call is in its loop or past it
InDrySeed == ~verify /\ dry_run /\ (pc \in SeedPcs \/ Exited0)

\* the key the i-th entry of all_services is stored under
ExpectedKey(i) == all_services[i][2] \o "#" \o all_services[i][1].service

\* positions of the table items this seed_services call has written: every
\* build of the call took its own tick of the clock
LandedNow ==
  {i \in 1..Len(table) : table[i].createdAt >= clock - stats.processed}

HasTag(o, tag) == \E k \in 1..Len(o) : o[k][1] = tag

\* the first line of o that carries tag
Line(o, tag) == o[CHOOSE k \in 1..Len(o) : o[k][1] = tag]

\* C1: in a real seed run a failed put_item is counted and the loop goes on:
\* the entries processed so far each got exactly one put_item call, in order,
\* written counts the calls whose item reached the table, errors counts the
\* others, and on return processed is the number of entries.
C1_WriteFailuresCounted ==
  InRealSeed =>
    /\ stats.processed = idx - 1
    /\ Len(puts) = stats.processed
    /\ \A i \in 1..Len(puts) : puts[i] = ExpectedKey(i)
    /\ stats.written = Cardinality(LandedNow)
    /\ stats.errors = Len(puts) - Cardinality(LandedNow)
    /\ stats.processed = stats.written + stats.errors
    /\ (pc # "seed_loop" => stats.processed = N)

\* a real run has returned after its first, its second and its last write failed
C1_Witness ==
  /\ RealSeedReturned
  /\ stats.errors = 3
  /\ stats.written = N - 3
  /\ ~ (ExpectedKey(1) \in Keys(table))
  /\ ~ (ExpectedKey(N) \in Keys(table))

\* what a dry run must leave as it is, and what it must report
DryRunState ==
  InDrySeed =>
    /\ ~handle
    /\ puts = <<>>
    /\ stats.processed = idx - 1
    /\ stats.written = stats.processed
    /\ stats.errors = 0
    /\ (pc # "seed_loop" => stats.processed = N)
    /\ (pc # "seed_loop" /\ lastSeed # NoSeed /\ lastSeed.stats.errors = 0
          => stats = lastSeed.stats)

\* C2: a dry run reports the processed and written counts of an error-free
\* real run, creates no table handle, calls put_item never, and leaves the
\* table as it was.
C2_DryRunWritesNothing ==
  [][/\ (~verify /\ dry_run /\ pc \in {"seed_services"} \cup SeedPcs
           => table' = table)
     /\ DryRunState']_vars

\* a dry run has returned over a table an earlier real run filled
C2_Witness ==
  /\ ~verify /\ dry_run /\ Exited0
  /\ stats.written = N
  /\ Len(table) = N
  /\ lastSeed # NoSeed

\* C3: assetsEnabled is "true" exactly for the names in
\* ASSETS_ENABLED_SERVICES and "false" otherwise, dataDiscoveryEnabled
\* likewise for DATA_DISCOVERY_ENABLED_SERVICES, whatever the provider;
\* ("s3", "aws") gives false / true and ("iam", "aws") gives true / false.
C3_FlagsFollowSets ==
  pc = "build_return" =>
    LET name == build_args.service_config.service
    IN  /\ item.assetsEnabled \in {"true", "false"}
        /\ item.dataDiscoveryEnabled \in {"true", "false"}
        /\ item.assetsEnabled = "true" <=> name \in ASSETS_ENABLED_SERVICES
        /\ item.dataDiscoveryEnabled = "true"
             <=> name \in DATA_DISCOVERY_ENABLED_SERVICES
        /\ item.features.assets.enabled = (item.assetsEnabled = "true")
        /\ item.features.dataDiscovery.enabled
             = (item.dataDiscoveryEnabled = "true")
        /\ (name = "s3" /\ build_args.provider = "aws"
              => item.assetsEnabled = "false"
                 /\ item.dataDiscoveryEnabled = "true")
        /\ (name = "iam" /\ build_args.provider = "aws"
              => item.assetsEnabled = "true"
                 /\ item.dataDiscoveryEnabled = "false")

\* the AWS entry "s3" built under the other provider keeps the flags of its name
C3_Witness ==
  /\ pc = "build_return"
  /\ build_args.service_config.service = "s3"
  /\ build_args.provider = "m365"
  /\ item.pk = "m365#s3"
  /\ item.assetsEnabled = "false"
  /\ item.dataDiscoveryEnabled = "true"

\* C4: every record build_service_item returns has cspmEnabled "true" and
\* features.cspm.enabled TRUE, for any definition and either provider, and
\* so has every record a seed run stored and every record a scan read back.
C4_CspmAlwaysOn ==
  /\ item # NoItem =>
       item.cspmEnabled = "true" /\ item.features.cspm.enabled = TRUE
  /\ \A i \in 1..Len(table) :
       table[i].cspmEnabled = "true" /\ table[i].features.cspm.enabled = TRUE
  /\ \A i \in 1..Len(items) : items[i].cspmEnabled = "true"

\* a record outside both feature sets, built under the other provider
C4_Witness ==
  /\ pc = "build_return"
  /\ build_args.service_config.service = "glacier"
  /\ build_args.provider = "m365"
  /\ item.cspmEnabled = "true"
  /\ item.assetsEnabled = "false"
  /\ item.dataDiscoveryEnabled = "false"

\* the records of all_services, as seed_services builds them
BuiltRecords ==
  [i \in 1..N |-> build_service_item(all_services[i][1], all_services[i][2], 0)]

\* no two of them share (provider, service), and no two share pk
RecordKeysUnique ==
  \A i, j \in 1..N :
    i # j =>
      /\ <<BuiltRecords[i].provider, BuiltRecords[i].service>>
           # <<BuiltRecords[j].provider, BuiltRecords[j].service>>
      /\ BuiltRecords[i].pk # BuiltRecords[j].pk

\* C5: no two records built from AWS_SERVICES and M365_SERVICES share a
\* (provider, name) pair or a pk, so the put_item calls of one real run go to
\* pairwise different keys and every successful one adds its own item.
C5_KeysUnique ==
  /\ RecordKeysUnique
  /\ InRealSeed =>
       /\ Cardinality({puts[i] : i \in 1..Len(puts)}) = Len(puts)
       /\ Cardinality(LandedNow) = stats.written
       /\ (emptyStart => Len(table) = stats.written)

\* an error-free real run into the empty table has returned: one item per entry
C5_Witness ==
  /\ RealSeedReturned
  /\ emptyStart
  /\ stats.written = N
  /\ Len(table) = N
  /\ Cardinality(Keys(table)) = N

\* a record without its two timestamps
NonTimestamp(r) == [f \in DOMAIN r \ {"createdAt", "updatedAt"} |-> r[f]]

\* after an error-free real run the table holds exactly the records of
\* all_services, timestamps aside, whatever it held before
CleanSeedCanonical ==
  RealSeedReturned /\ stats.errors = 0 =>
    /\ Len(table) = N
    /\ {NonTimestamp(table[i]) : i \in 1..Len(table)}
         = {NonTimestamp(BuiltRecords[i]) : i \in 1..N}

\* C6: no step removes a key from the table; the table changes only by a
\* successful put_item, which leaves the newly built record, whole, under its
\* pk and every other item as it was; and an error-free real run leaves the
\* same keys and the same non-timestamp values whether it is the first run
\* or a re-run.
C6_OverwriteNeverDelete ==
  [][/\ Keys(table) \subseteq Keys(table')
     /\ (table' # table \/ (InRealSeed /\ stats'.written = stats.written + 1)
           => /\ pc = "seed_loop" /\ ~dry_run
              /\ stats'.written = stats.written + 1
              /\ IndexOf(table', item'.pk) > 0
              /\ table'[IndexOf(table', item'.pk)] = item'
              /\ \A i \in 1..Len(table) :
                   table[i].pk # item'.pk => table'[i] = table[i]
              /\ Len(table') = IF item'.pk \in Keys(table)
                                 THEN Len(table) ELSE Len(table) + 1)
     /\ CleanSeedCanonical']_vars

\* an error-free re-run has returned over a table a first run had written to
C6_Witness ==
  /\ RealSeedReturned
  /\ runs = 2
  /\ ~emptyStart
  /\ stats.errors = 0
  /\ Len(table) = N
  /\ table[1].createdAt >= N
  /\ table[1].createdAt = table[1].updatedAt

ReportTags ==
  {"total", "by_provider", "by_category", "coverage", "assets_list",
   "data_discovery_list"}

\* what a verify_table pass shows once one of its scan calls has raised
ScanFailureReport ==
  scan_raised =>
    /\ verify
    /\ \A t \in ReportTags : ~HasTag(out, t)
    /\ pc \in {"verify_except", "verify_end", "shell"}
    /\ (pc = "verify_except" => out = << <<"verifying", table_name>> >>)
    /\ (pc = "verify_end" =>
          out = << <<"verifying", table_name>>, <<"error">> >>)
    /\ (pc = "shell" =>
          out = << <<"verifying", table_name>>, <<"error">>, <<"rule">> >>)

\* C7: once a scan call has raised, first page or later, verify_table makes
\* no further scan call and prints no total, grouped count or feature list,
\* only the error message between its header and its closing rule; and no
\* step of verify_table writes to the table.
C7_ScanFailureAborts ==
  [][/\ (verify /\ pc \in {"verify_table"} \cup VerifyPcs
           => table' = table /\ puts' = <<>>)
     /\ (scan_raised /\ pc # "shell" => scans' = scans)
     /\ ScanFailureReport']_vars

\* a pass has ended whose second scan call raised after a first page was read
C7_Witness ==
  /\ scan_raised
  /\ pc = "shell"
  /\ scans = 2
  /\ Len(items) > 0
  /\ Len(items) < Len(table)

\* C8 as stated: the process exits 0 on every path.
C8_ExitsZeroAlways == (pc = "shell" /\ exitCode # NoExit) => exitCode = 0

\* C8, amended: the process exits 0 exactly when it got its storage resource
\* (or needed none, in a dry run), however many writes or scans failed; when
\* boto3.resource raises, the exception leaves main and the status is 1.
C8_ExitsZeroUnlessClientFails ==
  (pc = "shell" /\ exitCode # NoExit) =>
    /\ exitCode \in {0, 1}
    /\ exitCode = 0 <=> (handle \/ (~verify /\ dry_run))
    /\ (stats.errors > 0 \/ scan_raised => exitCode = 0)

\* a real run has exited 0 although writes failed
C8_Witness ==
  /\ RealSeedReturned
  /\ pc = "shell"
  /\ exitCode = 0
  /\ stats.errors > 0
  /\ handle

\* a verify_table pass has printed its report
Reported == verify /\ pc \in {"verify_end", "shell"} /\ HasTag(out, "total")

\* the last real seed run started on the empty table and had no error
CleanFirstSeed ==
  lastSeed # NoSeed /\ lastSeed.emptyStart /\ lastSeed.stats.errors = 0

\* C9: after an error-free real seed run into the empty table, verify_table
\* counts every stored record once however the scan is paged: its total is
\* the seed run's processed count, its by-provider and by-category counts are
\* the seed run's, and its CSPM count is the total.
C9_VerifyRecountsSeed ==
  Reported /\ CleanFirstSeed =>
    /\ Line(out, "total")[2] = lastSeed.stats.processed
    /\ Line(out, "by_provider")[2] = lastSeed.by_provider
    /\ Line(out, "by_category")[2] = lastSeed.by_category
    /\ Line(out, "coverage")[2] = Line(out, "total")[2]

\* a report printed from three pages after a clean first seed run
C9_Witness ==
  /\ Reported
  /\ CleanFirstSeed
  /\ scans = 3
  /\ Line(out, "total")[2] = N
  /\ Line(out, "by_provider")[2]["m365"] = Len(M365_SERVICES)

\* C10: one run does one operation. With --verify (with or without
\* --dry-run) no record is built, logged or written; without it no scan is
\* issued and no report printed; and the "Run with --verify" hint appears
\* only after a real seed run that returned with errors = 0.
C10_OneOperationPerRun ==
  /\ verify =>
       /\ pc \notin {"seed_services"} \cup SeedPcs
       /\ item = NoItem
       /\ puts = <<>>
       /\ log = <<>>
       /\ stats = ZeroStats
       /\ ~HasTag(out, "summary")
       /\ ~HasTag(out, "hint")
  /\ ~verify =>
       /\ pc \notin {"verify_table"} \cup VerifyPcs
       /\ scans = 0
       /\ items = <<>>
       /\ ~HasTag(out, "verifying")
       /\ \A t \in ReportTags \ {"by_provider", "by_category", "coverage"} :
            ~HasTag(out, t)
  /\ HasTag(out, "hint") =>
       /\ ~verify
       /\ ~dry_run
       /\ stats.errors = 0
       /\ stats.processed = N
       /\ Exited0

\* --verify together with --dry-run has reported on a seeded table
C10_Witness ==
  /\ verify
  /\ dry_run
  /\ Exited0
  /\ HasTag(out, "total")
  /\ Len(table) > 0
  /\ item = NoItem

\* number of AWS_SERVICES entries filed under category c
AwsInCategory(c) ==
  Cardinality({i \in 1..Len(AWS_SERVICES) : AWS_SERVICES[i].category = c})

\* the entry counts the section comments of AWS_SERVICES state
StatedAwsCounts ==
  [storage |-> 9, database |-> 9, compute |-> 10, security |-> 15,
   networking |-> 9, ai_ml |-> 3, analytics |-> 7, integration |-> 9,
   management |-> 13]

\* C11: AWS_SERVICES has 84 entries, each category as many as its section
\* comment states, so a seed run that has finished its loop has processed 84
\* "aws" records and 4 "m365" records.
C11_StatedEntryCounts ==
  ~verify /\ pc \in {"seed_summary", "seed_returned"} =>
    /\ Len(AWS_SERVICES) = 84
    /\ \A c \in DOMAIN StatedAwsCounts : AwsInCategory(c) = StatedAwsCounts[c]
    /\ items_by_provider = [aws |-> 84, m365 |-> 4]
    /\ stats.processed = 88

\* every name of the two feature sets is the service of exactly one entry of
\* all_services
FeatureNamesOccurOnce ==
  \A name \in ASSETS_ENABLED_SERVICES \cup DATA_DISCOVERY_ENABLED_SERVICES :
    Cardinality({i \in 1..N : all_services[i][1].service = name}) = 1

\* number of records of all_services built with flag "true"
BuiltWithFlag(flag) ==
  Cardinality({i \in 1..N : BuiltRecords[i][flag] = "true"})

\* number of dry-run log lines that list feature
LoggedWithFeature(feature) ==
  Cardinality({k \in 1..Len(log) :
                 /\ log[k][1] = "dry_run"
                 /\ \E j \in 1..Len(log[k][3]) : log[k][3][j] = feature})

\* number of items this seed_services call has written with flag "true"
LandedWithFlag(flag) ==
  Cardinality({i \in LandedNow : table[i][flag] = "true"})

\* C12: the feature coverage seed_services prints is that of the records it
\* builds: every name of ASSETS_ENABLED_SERVICES and of
\* DATA_DISCOVERY_ENABLED_SERVICES is in exactly one entry, so the printed
\* Assets and Data Discovery numbers are the numbers of records built with
\* the flag "true" (as a dry run logs them, as an error-free real run stores
\* them), and "documentdb" is built with dataDiscoveryEnabled "false".
C12_CoverageMatchesRecords ==
  /\ FeatureNamesOccurOnce
  /\ BuiltWithFlag("assetsEnabled") = Cardinality(ASSETS_ENABLED_SERVICES)
  /\ BuiltWithFlag("dataDiscoveryEnabled")
       = Cardinality(DATA_DISCOVERY_ENABLED_SERVICES)
  /\ (~verify /\ HasTag(out, "coverage")) =>
       /\ Line(out, "coverage")[3] = BuiltWithFlag("assetsEnabled")
       /\ Line(out, "coverage")[4] = BuiltWithFlag("dataDiscoveryEnabled")
       /\ dry_run =>
            /\ LoggedWithFeature("Assets") = Line(out, "coverage")[3]
            /\ LoggedWithFeature("DataDiscovery") = Line(out, "coverage")[4]
            /\ LoggedWithFeature("CSPM") = Line(out, "coverage")[2]
       /\ (~dry_run /\ stats.errors = 0) =>
            /\ LandedWithFlag("assetsEnabled") = Line(out, "coverage")[3]
            /\ LandedWithFlag("dataDiscoveryEnabled") = Line(out, "coverage")[4]
            /\ LandedWithFlag("cspmEnabled") = Line(out, "coverage")[2]
  /\ (item # NoItem /\ item.service = "documentdb") =>
       item.dataDiscoveryEnabled = "false"
  /\ \A i \in 1..Len(table) :
       table[i].service = "documentdb" =>
         table[i].dataDiscoveryEnabled = "false"

\* an error-free real run has printed its coverage and stored "documentdb"
C12_Witness ==
  /\ RealSeedReturned
  /\ stats.errors = 0
  /\ HasTag(out, "coverage")
  /\ LandedWithFlag("assetsEnabled") = Cardinality(ASSETS_ENABLED_SERVICES)
  /\ LandedWithFlag("dataDiscoveryEnabled")
       = Cardinality(DATA_DISCOVERY_ENABLED_SERVICES)
  /\ \E i \in 1..Len(table) :
       table[i].pk = "aws#documentdb" /\ table[i].dataDiscoveryEnabled = "false"
=============================================================================
